---- MODULE Spec2Model ----
(***************************************************************************)
(* Model of generate_window_svg (src/gen_window3.py): the validation of a  *)
(* WindowSpec, the path builders, the layout of the vertical and           *)
(* horizontal sash bars and the assembly of the SVG element list.          *)
(*                                                                         *)
(* Numbers.  The generator computes with Python floats.  They are modelled *)
(* as exact rationals <<numerator, denominator>> in lowest terms with a    *)
(* positive denominator, so a division is a division and not a rounding.   *)
(* Every length is counted in units of 1e-9 mm: the generator is           *)
(* homogeneous in its lengths except for the tolerance 1e-9 of line 153,   *)
(* which is Eps = 1 unit here.  float(v) of an integer input v is <<v, 1>>.*)
(*                                                                         *)
(* The SVG text is modelled element by element: one record per string the  *)
(* code appends to the list svg, in the order of the appends.  The colour  *)
(* attributes are named by the WindowSpec field they are read from.        *)
(***************************************************************************)
EXTENDS Integers, Sequences, FiniteSets, TLC

VARIABLES spec, pc, result

vars == <<spec, pc, result>>

(* ------------------------------ bounds -------------------------------- *)
MaxDim == 6
MaxFrame == 2
MaxNV == 3
MaxNH == 2
MaxBarWidth == 3

(* 1e-9 mm, the tolerance of the gap test, in model units *)
Eps == 1

(* --------------------------- exact numbers ---------------------------- *)
Abs(n) == IF n < 0 THEN -n ELSE n

RECURSIVE GCD(_, _)
GCD(a, b) == IF b = 0 THEN a ELSE GCD(b, a % b)

RNorm(n, d) == LET g == GCD(Abs(n), d) IN <<n \div g, d \div g>>

float(v) == <<v, 1>>

RAdd(p, q) == RNorm(p[1] * q[2] + q[1] * p[2], p[2] * q[2])
RSub(p, q) == RNorm(p[1] * q[2] - q[1] * p[2], p[2] * q[2])
RScale(k, p) == RNorm(k * p[1], p[2])
RDivInt(p, k) == RNorm(p[1], p[2] * k)
RLt(p, q) == p[1] * q[2] < q[1] * p[2]
RLe(p, q) == p[1] * q[2] <= q[1] * p[2]
RMax(p, q) == IF RLt(p, q) THEN q ELSE p
RMin(p, q) == IF RLt(q, p) THEN q ELSE p
Zero == float(0)

(* ------------------------------ WindowSpec ---------------------------- *)
\* Optional[float]: the empty tuple is None, <<v>> is the number v
None == <<>>
Some(v) == <<v>>

Modes == {"even", "from_chord", "other"}

WindowSpec ==
  [ width_mm : {0, MaxDim - 1, MaxDim},
    height_mm : 0..MaxDim,
    frame_width_mm : (-1)..MaxFrame,
    num_vertical_bars : (-1)..MaxNV,
    num_horizontal_bars : (-1)..MaxNH,
    sash_bar_width_mm : (-1)..MaxBarWidth,
    arch_height_mm : (-1)..MaxDim,
    center_vertical_bar_width_mm : {None, Some(-1), Some(0), Some(MaxBarWidth + 1)},
    horizontal_distribution_mode : Modes ]

(* ------------------------------ elements ------------------------------ *)
\* one drawing command of a path: M x,y | A rx,ry 0 0 1 x,y | L x,y | Z
Cmd(op, rx, ry, x, y) == [op |-> op, rx |-> rx, ry |-> ry, x |-> x, y |-> y]
MoveTo(x, y) == Cmd("M", Zero, Zero, x, y)
ArcTo(rx, ry, x, y) == Cmd("A", rx, ry, x, y)
LineTo(x, y) == Cmd("L", Zero, Zero, x, y)
Close == Cmd("Z", Zero, Zero, Zero, Zero)

\* one string appended to svg; at is the place of the append in the layering
Element(el, at, x, y, w, h, d, fill, rule) ==
  [el |-> el, at |-> at, x |-> x, y |-> y, width |-> w, height |-> h,
   d |-> d, fill |-> fill, fill_rule |-> rule]
Markup(el) == Element(el, "markup", Zero, Zero, Zero, Zero, <<>>, "", "")
RectEl(at, x, y, w, h, fill) == Element("rect", at, x, y, w, h, <<>>, fill, "")
PathEl(at, d, fill, rule) == Element("path", at, Zero, Zero, Zero, Zero, d, fill, rule)

(* ---------------------------- path builders --------------------------- *)
path_arch_outer(width, height, arch_h) ==
  << MoveTo(Zero, arch_h),
     ArcTo(RDivInt(width, 2), arch_h, width, arch_h),
     LineTo(width, height),
     LineTo(Zero, height),
     Close >>

\* the inner path with its height inset by the frame once only
path_arch_inner_SingleInset(width, height, frame_w, arch_h) ==
  LET wi == RMax(Zero, RSub(width, RScale(2, frame_w)))
      hi == RMax(Zero, RSub(height, frame_w))
      arch_inner == RMax(Zero, RSub(arch_h, frame_w))
      x0 == frame_w
      y0 == frame_w
  IN << MoveTo(x0, RAdd(y0, arch_inner)),
        ArcTo(RDivInt(wi, 2), arch_inner, RAdd(x0, wi), RAdd(y0, arch_inner)),
        LineTo(RAdd(x0, wi), RAdd(y0, hi)),
        LineTo(x0, RAdd(y0, hi)),
        Close >>

path_arch_inner(width, height, frame_w, arch_h) ==
  LET wi == RMax(Zero, RSub(width, RScale(2, frame_w)))
      hi == RMax(Zero, RSub(height, RScale(2, frame_w)))
      arch_inner == RMax(Zero, RSub(arch_h, frame_w))
      x0 == frame_w
      y0 == frame_w
  IN << MoveTo(x0, RAdd(y0, arch_inner)),
        ArcTo(RDivInt(wi, 2), arch_inner, RAdd(x0, wi), RAdd(y0, arch_inner)),
        LineTo(RAdd(x0, wi), RAdd(y0, hi)),
        LineTo(x0, RAdd(y0, hi)),
        Close >>

compound_frame_path_rect(W, H, FW) ==
  << MoveTo(Zero, Zero), LineTo(W, Zero), LineTo(W, H), LineTo(Zero, H), Close,
     MoveTo(FW, FW), LineTo(RSub(W, FW), FW), LineTo(RSub(W, FW), RSub(H, FW)),
     LineTo(FW, RSub(H, FW)), Close >>

compound_frame_path_arch(W, H, FW, AH) ==
  path_arch_outer(W, H, AH) \o path_arch_inner(W, H, FW, AH)

(* ------------------- generate_window_svg: the locals ------------------ *)
W(s) == float(s.width_mm)
H(s) == float(s.height_mm)
FW(s) == float(s.frame_width_mm)
NV(s) == s.num_vertical_bars
NH(s) == s.num_horizontal_bars
BW(s) == float(s.sash_bar_width_mm)
AH(s) == float(s.arch_height_mm)
mode(s) == s.horizontal_distribution_mode

\* Python truth of the optional field: None and 0 are both false
Truthy(v) == v # None /\ v[1] # 0

CWB(s) ==
  IF Truthy(s.center_vertical_bar_width_mm)
  THEN float(s.center_vertical_bar_width_mm[1])
  ELSE BW(s)

(* --------------------------- the six checks --------------------------- *)
\* the checks with the upper limit of the arch height left out
ValidationError_NoArchLimit(s) ==
  IF RLe(W(s), Zero) \/ RLe(H(s), Zero) THEN "InvalidDimensions"
  ELSE IF RLt(FW(s), Zero) \/ RLe(RMin(W(s), H(s)), RScale(2, FW(s)))
       THEN "InvalidFrameWidth"
  ELSE IF RLt(AH(s), Zero) THEN "InvalidArchHeight"
  ELSE IF NV(s) < 0 \/ NH(s) < 0 THEN "InvalidBarCount"
  ELSE IF RLt(BW(s), Zero) \/ RLt(CWB(s), Zero) THEN "InvalidBarWidth"
  ELSE IF mode(s) \notin {"even", "from_chord"} THEN "InvalidMode"
  ELSE "none"

\* the ValueError raised by the first check that fails, "none" when all pass
ValidationError(s) ==
  IF RLe(W(s), Zero) \/ RLe(H(s), Zero) THEN "InvalidDimensions"
  ELSE IF RLt(FW(s), Zero) \/ RLe(RMin(W(s), H(s)), RScale(2, FW(s)))
       THEN "InvalidFrameWidth"
  ELSE IF RLt(AH(s), Zero) \/ RLt(H(s), AH(s)) THEN "InvalidArchHeight"
  ELSE IF NV(s) < 0 \/ NH(s) < 0 THEN "InvalidBarCount"
  ELSE IF RLt(BW(s), Zero) \/ RLt(CWB(s), Zero) THEN "InvalidBarWidth"
  ELSE IF mode(s) \notin {"even", "from_chord"} THEN "InvalidMode"
  ELSE "none"

inner_x(s) == FW(s)
inner_y(s) == FW(s)
inner_w(s) == RSub(W(s), RScale(2, FW(s)))
\* the aperture height inset by the frame once only
inner_h_SingleInset(s) == RSub(H(s), FW(s))

inner_h(s) == RSub(H(s), RScale(2, FW(s)))

HasArch(s) == RLt(Zero, AH(s))

(* ----------------- clip region, glass and frame layers ---------------- *)
glazing_path(s) == path_arch_inner(W(s), H(s), FW(s), AH(s))

frame_path(s) ==
  IF HasArch(s)
  THEN compound_frame_path_arch(W(s), H(s), FW(s), AH(s))
  ELSE compound_frame_path_rect(W(s), H(s), FW(s))

ClipShape(s) ==
  IF HasArch(s)
  THEN PathEl("clip", glazing_path(s), "", "")
  ELSE RectEl("clip", inner_x(s), inner_y(s), inner_w(s), inner_h(s), "")

GlassShape(s) ==
  IF HasArch(s)
  THEN PathEl("glass", glazing_path(s), "glass_color", "")
  ELSE RectEl("glass", inner_x(s), inner_y(s), inner_w(s), inner_h(s), "glass_color")

FrameShape(s) == PathEl("frame", frame_path(s), "frame_color", "evenodd")

\* the frame painted before the glass
Layers_FrameFirst(s) ==
  << Markup("xml"), Markup("svg"), Markup("defs"), Markup("clipPath"),
     ClipShape(s),
     Markup("/clipPath"), Markup("/defs"),
     FrameShape(s),
     GlassShape(s),
     Markup("g") >>

Layers(s) ==
  << Markup("xml"), Markup("svg"), Markup("defs"), Markup("clipPath"),
     ClipShape(s),
     Markup("/clipPath"), Markup("/defs"),
     GlassShape(s),
     FrameShape(s),
     Markup("g") >>

(* ---------------------------- vertical bars --------------------------- *)
\* width of the vertical bar of 0-based index i
VerticalBarWidth(s, i) ==
  IF NV(s) % 2 = 1 /\ i = NV(s) \div 2 THEN CWB(s) ELSE BW(s)

\* the spacing taken over N parts instead of N + 1
x_gap_OverN(s) == RDivInt(inner_w(s), NV(s))

x_gap(s) == RDivInt(inner_w(s), NV(s) + 1)

VerticalBar(s, i) ==
  LET cx == RAdd(inner_x(s), RScale(i + 1, x_gap(s)))
      w == VerticalBarWidth(s, i)
      x == RSub(cx, RDivInt(w, 2))
  IN RectEl("vertical", x, Zero, w, H(s), "bar_color")

VerticalBars(s) ==
  IF NV(s) > 0 /\ RLt(Zero, inner_w(s))
  THEN [k \in 1..NV(s) |-> VerticalBar(s, k - 1)]
  ELSE <<>>

(* --------------------------- horizontal bars -------------------------- *)
\* the chord branch taken whatever the arch height
UseChord_AnyArch(s) == mode(s) = "from_chord"

UseChord(s) == mode(s) = "from_chord" /\ HasArch(s)

\* the inner rise without the clamp at 0
arch_inner_NoClamp(s) == RSub(AH(s), FW(s))

arch_inner(s) == RMax(Zero, RSub(AH(s), FW(s)))
chord_y(s) == RAdd(inner_y(s), arch_inner(s))

ChordBar(s) == RectEl("chord", Zero, chord_y(s), W(s), FW(s), "bar_color")

start_y(s) == RAdd(chord_y(s), FW(s))
bottom_y(s) == RAdd(inner_y(s), inner_h(s))
T(s) == RSub(bottom_y(s), start_y(s))

\* g before the clamp
RawGap(s) == RDivInt(RSub(T(s), RScale(NH(s), BW(s))), NH(s) + 1)

\* the gap test without the tolerance
GapTooNegative_NoTolerance(s) == RLt(RawGap(s), Zero)

GapTooNegative(s) == RLt(RawGap(s), float(-Eps))

\* the ValueError raised while the bars below the chord bar are laid out
ChordError(s) ==
  IF NH(s) > 0
  THEN IF RLe(T(s), Zero) THEN "NoSpaceBelowChord"
       ELSE IF GapTooNegative(s) THEN "InsufficientSpace"
       ELSE "none"
  ELSE "none"

g(s) == RMax(RawGap(s), Zero)

\* the bars stacked from the chord bar without the leading gap
ChordLowerBar_NoLeadingGap(s, k) ==
  LET y_top == RAdd(start_y(s), RScale(k, RAdd(BW(s), g(s))))
  IN RectEl("horizontal", Zero, y_top, W(s), BW(s), "bar_color")

ChordLowerBar(s, k) ==
  LET y_top == RAdd(RAdd(start_y(s), g(s)), RScale(k, RAdd(BW(s), g(s))))
  IN RectEl("horizontal", Zero, y_top, W(s), BW(s), "bar_color")

ChordLowerBars(s) ==
  IF NH(s) > 0 THEN [k \in 1..NH(s) |-> ChordLowerBar(s, k - 1)] ELSE <<>>

y_gap(s) == RDivInt(inner_h(s), NH(s) + 1)

EvenBar(s, j) ==
  LET cy == RAdd(inner_y(s), RScale(j + 1, y_gap(s)))
      y == RSub(cy, RDivInt(BW(s), 2))
  IN RectEl("horizontal", Zero, y, W(s), BW(s), "bar_color")

EvenBars(s) ==
  IF NH(s) > 0 THEN [k \in 1..NH(s) |-> EvenBar(s, k - 1)] ELSE <<>>

\* the layout below a chord bar tested in every mode
HorizontalError_AnyMode(s) ==
  IF RLt(Zero, inner_h(s)) THEN ChordError(s) ELSE "none"

HorizontalError(s) ==
  IF RLt(Zero, inner_h(s)) /\ UseChord(s) THEN ChordError(s) ELSE "none"

HorizontalBars(s) ==
  IF RLt(Zero, inner_h(s))
  THEN IF UseChord(s) THEN <<ChordBar(s)>> \o ChordLowerBars(s)
       ELSE EvenBars(s)
  ELSE <<>>

(* ------------------------- generate_window_svg ------------------------ *)
Raised(e) == [status |-> "error", error |-> e, svg |-> <<>>]
Returned(svg) == [status |-> "ok", error |-> "none", svg |-> svg]
NotCalled == [status |-> "none", error |-> "none", svg |-> <<>>]

generate_window_svg(s) ==
  IF ValidationError(s) # "none" THEN Raised(ValidationError(s))
  ELSE IF HorizontalError(s) # "none" THEN Raised(HorizontalError(s))
  ELSE Returned(Layers(s) \o VerticalBars(s) \o HorizontalBars(s)
                \o <<Markup("/g"), Markup("/svg")>>)

(* ---------------------------- state machine --------------------------- *)
Init ==
  /\ spec \in WindowSpec
  /\ pc = "start"
  /\ result = NotCalled

\* the call that resolves the center width into the spec it was given
Generate_ResolvesInPlace ==
  /\ pc \in {"start", "done"}
  /\ result' = generate_window_svg(spec)
  /\ pc' = IF pc = "start" THEN "done" ELSE "again"
  /\ spec' = [spec EXCEPT !.center_vertical_bar_width_mm = Some(CWB(spec)[1])]

\* one call of generate_window_svg(spec); the spec is read, never written.
\* The caller may call once more on the same spec: pc is "done" after the
\* first call and "again" after the second.
Generate ==
  /\ pc \in {"start", "done"}
  /\ result' = generate_window_svg(spec)
  /\ pc' = IF pc = "start" THEN "done" ELSE "again"
  /\ UNCHANGED spec

Next == Generate

Spec == Init /\ [][Next]_vars

(* ====================================================================== *)
(* The properties.  What the specification says of a WindowSpec is stated *)
(* here on the integer fields of spec, apart from the operators above.    *)
(* ====================================================================== *)
Done == pc = "done"
Ok == result.status = "ok"
Failed == result.status = "error"

\* the center width as the specification resolves it: the field, or
\* sash_bar_width when the field is absent
SpecCenter(s) ==
  IF s.center_vertical_bar_width_mm = None
  THEN s.sash_bar_width_mm
  ELSE s.center_vertical_bar_width_mm[1]

IntMin(a, b) == IF a < b THEN a ELSE b
IntMax(a, b) == IF a < b THEN b ELSE a

\* the constraints of the specification that s violates
Violations(s) ==
     (IF s.width_mm > 0 /\ s.height_mm > 0 THEN {} ELSE {"InvalidDimensions"})
  \cup (IF s.frame_width_mm >= 0
           /\ 2 * s.frame_width_mm < IntMin(s.width_mm, s.height_mm)
        THEN {} ELSE {"InvalidFrameWidth"})
  \cup (IF 0 <= s.arch_height_mm /\ s.arch_height_mm <= s.height_mm
        THEN {} ELSE {"InvalidArchHeight"})
  \cup (IF s.num_vertical_bars >= 0 /\ s.num_horizontal_bars >= 0
        THEN {} ELSE {"InvalidBarCount"})
  \cup (IF s.sash_bar_width_mm >= 0 /\ SpecCenter(s) >= 0
        THEN {} ELSE {"InvalidBarWidth"})
  \cup (IF s.horizontal_distribution_mode \in {"even", "from_chord"}
        THEN {} ELSE {"InvalidMode"})

Valid(s) == Violations(s) = {}

\* the elements appended at one place of the layering, in document order
At(svg, a) == SelectSeq(svg, LAMBDA e : e.at = a)

\* aperture and chord geometry as the specification states it
ApertureW(s) == s.width_mm - 2 * s.frame_width_mm
ApertureH(s) == s.height_mm - 2 * s.frame_width_mm
InnerRise(s) == IntMax(0, s.arch_height_mm - s.frame_width_mm)
ChordTop(s) == s.frame_width_mm + InnerRise(s)
\* span between the chord bar's bottom edge and the aperture's bottom edge
Span(s) == (s.height_mm - s.frame_width_mm) - (ChordTop(s) + s.frame_width_mm)

(* C1: a spec that violates a constraint makes generate_window_svg fail   *)
(* with an error naming a constraint the spec violates, and no document   *)
(* is returned.                                                           *)
C1_InvalidSpecRejected ==
  (Done /\ ~Valid(spec)) =>
    /\ Failed
    /\ result.error \in Violations(spec)
    /\ result.svg = <<>>

C1_Witness ==
  /\ Done
  /\ Cardinality(Violations(spec)) >= 2
  /\ Failed
  /\ result.error = "InvalidArchHeight"

(* C2: for a spec that passes validation, in both modes, generation fails *)
(* or every horizontal bar that is emitted, the chord bar included, lies  *)
(* within the aperture: bar.y >= frame_width and                          *)
(* bar.y + bar.height <= height - frame_width.                            *)
InAperture(s, b) ==
  /\ RLe(float(s.frame_width_mm), b.y)
  /\ RLe(RAdd(b.y, b.height), float(s.height_mm - s.frame_width_mm))

C2_HorizontalBarsInAperture ==
  (Done /\ Valid(spec) /\ Ok) =>
    \A i \in 1..Len(result.svg) :
      result.svg[i].at \in {"horizontal", "chord"} => InAperture(spec, result.svg[i])

(* C3 as stated: in from_chord mode (with an arch, so that there is a     *)
(* chord bar), whenever num_horizontal_bars * sash_bar_width exceeds the  *)
(* span T below the chord bar, generation raises the insufficient-space   *)
(* error and emits no bar.                                                *)
SpaceErrors == {"NoSpaceBelowChord", "InsufficientSpace"}

BarsExceedSpan(s) == s.num_horizontal_bars * s.sash_bar_width_mm > Span(s)

GapTimesCount(s) == Span(s) - s.num_horizontal_bars * s.sash_bar_width_mm

ChordCase(s) ==
  /\ Valid(s)
  /\ s.horizontal_distribution_mode = "from_chord"
  /\ s.arch_height_mm > 0
  /\ s.num_horizontal_bars >= 1

GapBelowTolerance(s) == GapTimesCount(s) < -Eps * (s.num_horizontal_bars + 1)

C3_WitnessClamped ==
  /\ Done
  /\ ChordCase(spec)
  /\ Span(spec) > 0 /\ GapTimesCount(spec) < 0 /\ ~GapBelowTolerance(spec)
  /\ Ok

(* C4 as stated: the resolved center width is sash_bar_width exactly when *)
(* the field is absent and is the supplied value v otherwise (v = 0       *)
(* included); that value is the one validated (a negative one is refused) *)
(* and the one used for the middle vertical bar.                          *)
OddBars(s) == s.num_vertical_bars % 2 = 1

MiddleBar(svg, s) == At(svg, "vertical")[(s.num_vertical_bars \div 2) + 1]

C4_CenterWidthResolved ==
  Done =>
    /\ (SpecCenter(spec) < 0 => Failed)
    /\ (Ok /\ OddBars(spec)) =>
         MiddleBar(result.svg, spec).width = float(SpecCenter(spec))

(* C5: for a valid spec the document holds exactly num_vertical_bars      *)
(* vertical bars, the k-th centered on inner_x + k * Wi / (N + 1) and     *)
(* spanning [0, height]; in even mode generation succeeds and the         *)
(* document holds exactly num_horizontal_bars horizontal bars, the j-th   *)
(* centered on inner_y + j * Hi / (NH + 1), of thickness sash_bar_width   *)
(* and spanning [0, width], and no chord bar.                             *)
CenterX(b) == RAdd(b.x, RDivInt(b.width, 2))
CenterY(b) == RAdd(b.y, RDivInt(b.height, 2))

\* origin + k * extent / (n + 1)
Centerline(origin, extent, n, k) == RAdd(float(origin), RNorm(k * extent, n + 1))

VerticalLayout(svg, s) ==
  LET vb == At(svg, "vertical")
  IN /\ Len(vb) = s.num_vertical_bars
     /\ \A k \in 1..Len(vb) :
          /\ CenterX(vb[k]) =
               Centerline(s.frame_width_mm, ApertureW(s), s.num_vertical_bars, k)
          /\ vb[k].y = Zero
          /\ vb[k].height = float(s.height_mm)

EvenLayout(svg, s) ==
  LET hb == At(svg, "horizontal")
  IN /\ Len(hb) = s.num_horizontal_bars
     /\ At(svg, "chord") = <<>>
     /\ \A j \in 1..Len(hb) :
          /\ CenterY(hb[j]) =
               Centerline(s.frame_width_mm, ApertureH(s), s.num_horizontal_bars, j)
          /\ hb[j].height = float(s.sash_bar_width_mm)
          /\ hb[j].x = Zero
          /\ hb[j].width = float(s.width_mm)

C5_CenterlineLayout ==
  (Done /\ Valid(spec)) =>
    /\ Ok => VerticalLayout(result.svg, spec)
    /\ spec.horizontal_distribution_mode = "even" =>
         (Ok /\ EvenLayout(result.svg, spec))

C5_Witness ==
  /\ Done /\ Valid(spec) /\ Ok
  /\ spec.horizontal_distribution_mode = "even"
  /\ spec.num_vertical_bars >= 2
  /\ spec.num_horizontal_bars >= 2
  /\ spec.sash_bar_width_mm > 0
  /\ Len(At(result.svg, "vertical")) = spec.num_vertical_bars
  /\ Len(At(result.svg, "horizontal")) = spec.num_horizontal_bars

(* C6 (gaps plus bar widths sum to the aperture extent) has no formula:   *)
(* with the gaps read off the emitted rectangles' edges the sum           *)
(* telescopes to inner_w (inner_h) for any list of bars whatever, so it   *)
(* holds of every layout and decides nothing about this one.              *)

(* C7 as stated: for a valid spec with an odd num_vertical_bars N the     *)
(* vertical bar of 0-based index N \div 2 has width                       *)
(* center_vertical_bar_width (the field, or sash_bar_width when the field *)
(* is absent) and every other vertical bar has width sash_bar_width; for  *)
(* an even N every vertical bar has width sash_bar_width.                 *)
SpecBarWidth(s, k) ==
  IF OddBars(s) /\ k = (s.num_vertical_bars \div 2) + 1
  THEN SpecCenter(s)
  ELSE s.sash_bar_width_mm

C7_MiddleBarWidth ==
  (Done /\ Valid(spec) /\ Ok) =>
    LET vb == At(result.svg, "vertical")
    IN \A k \in 1..Len(vb) : vb[k].width = float(SpecBarWidth(spec, k))

(* C8 as stated: every valid from_chord spec yields a document with a     *)
(* chord bar whose y is inner_y + max(0, arch_height - frame_width),      *)
(* whose height is frame_width and which spans [0, width].                *)
HasChordBar(svg, s) ==
  LET cb == At(svg, "chord")
  IN /\ Len(cb) = 1
     /\ cb[1].y = float(ChordTop(s))
     /\ cb[1].height = float(s.frame_width_mm)
     /\ cb[1].x = Zero
     /\ cb[1].width = float(s.width_mm)

C8_ChordBarAlways ==
  (Done /\ Valid(spec) /\ spec.horizontal_distribution_mode = "from_chord") =>
    (Ok /\ HasChordBar(result.svg, spec))

(* C8 amended: every valid from_chord spec with arch_height > 0 whose     *)
(* generation succeeds yields a document with exactly one chord bar, with *)
(* y = inner_y + max(0, arch_height - frame_width), height = frame_width  *)
(* and spanning [0, width].                                               *)
C8_ChordBarWithArch ==
  (Done /\ Valid(spec) /\ spec.horizontal_distribution_mode = "from_chord"
        /\ spec.arch_height_mm > 0 /\ Ok) =>
    HasChordBar(result.svg, spec)

C8_Witness ==
  /\ Done /\ Valid(spec) /\ Ok
  /\ spec.horizontal_distribution_mode = "from_chord"
  /\ spec.arch_height_mm > spec.frame_width_mm
  /\ spec.frame_width_mm > 0
  /\ Len(At(result.svg, "chord")) = 1

\* the clamp of the inner rise is reached: arch_height < frame_width
C8_WitnessClampedRise ==
  /\ Done /\ Valid(spec) /\ Ok
  /\ spec.horizontal_distribution_mode = "from_chord"
  /\ 0 < spec.arch_height_mm /\ spec.arch_height_mm < spec.frame_width_mm
  /\ Len(At(result.svg, "chord")) = 1

(* C9 as stated: in from_chord mode with arch_height > 0 and a successful *)
(* generation, exactly N = num_horizontal_bars bars of thickness          *)
(* sash_bar_width follow the chord bar, the k-th (k = 0..N-1) with top    *)
(* edge chord_y + frame_width + g + k * (sash_bar_width + g) for          *)
(* g = (T - N * sash_bar_width) / (N + 1), and the last bar's bottom edge *)
(* plus g is the aperture's bottom edge.                                  *)
SpecGap(s) == RNorm(GapTimesCount(s), s.num_horizontal_bars + 1)

\* the layout below the chord bar with gap gap
LowerLayout(svg, s, gap) ==
  LET hb == At(svg, "horizontal")
      n == s.num_horizontal_bars
      below == float(ChordTop(s) + s.frame_width_mm)
  IN /\ Len(hb) = n
     /\ \A k \in 1..Len(hb) :
          /\ hb[k].height = float(s.sash_bar_width_mm)
          /\ hb[k].y = RAdd(RAdd(below, gap),
                            RScale(k - 1, RAdd(float(s.sash_bar_width_mm), gap)))

EndsWithGap(svg, s, gap) ==
  LET hb == At(svg, "horizontal")
  IN Len(hb) > 0 =>
       RAdd(RAdd(hb[Len(hb)].y, hb[Len(hb)].height), gap)
         = float(s.height_mm - s.frame_width_mm)

ChordSuccess(s) ==
  /\ Valid(s)
  /\ s.horizontal_distribution_mode = "from_chord"
  /\ s.arch_height_mm > 0

AsEven(s) == [s EXCEPT !.horizontal_distribution_mode = "even"]

C10_ChordModeWithoutArchIsEven ==
  (Done /\ Valid(spec) /\ spec.arch_height_mm = 0
        /\ spec.horizontal_distribution_mode = "from_chord") =>
    /\ Ok
    /\ result = generate_window_svg(AsEven(spec))
    /\ At(result.svg, "chord") = <<>>
    /\ Len(At(result.svg, "horizontal")) = spec.num_horizontal_bars

\* a spec whose bars would not fit below a chord bar
C10_Witness ==
  /\ Done /\ Valid(spec) /\ Ok
  /\ spec.arch_height_mm = 0
  /\ spec.horizontal_distribution_mode = "from_chord"
  /\ spec.num_horizontal_bars >= 1
  /\ BarsExceedSpan(spec)
  /\ Len(At(result.svg, "horizontal")) = spec.num_horizontal_bars

(* C11: every document lists its elements in the fixed order: the clip    *)
(* region definition holding the aperture shape, then the glass fill of   *)
(* the same shape, then the frame path with even-odd fill, then the one   *)
(* group that refers to the clip region; every bar rectangle (vertical,   *)
(* chord, horizontal) lies inside that group, so none comes before the    *)
(* frame or outside the group.                                            *)
Places(svg, a) == {i \in DOMAIN svg : svg[i].at = a}
Marks(svg, el) == {i \in DOMAIN svg : svg[i].at = "markup" /\ svg[i].el = el}
TheOne(S) == CHOOSE i \in S : TRUE
BarPlaces(svg) == {i \in DOMAIN svg : svg[i].at \in {"vertical", "chord", "horizontal"}}

\* the geometry of a shape, whatever layer draws it
Shape(e) == <<e.el, e.x, e.y, e.width, e.height, e.d>>

LayerOrder(svg) ==
  /\ \A el \in {"clipPath", "/clipPath", "g", "/g"} : Cardinality(Marks(svg, el)) = 1
  /\ \A a \in {"clip", "glass", "frame"} : Cardinality(Places(svg, a)) = 1
  /\ LET clipOpen == TheOne(Marks(svg, "clipPath"))
         clip == TheOne(Places(svg, "clip"))
         clipClose == TheOne(Marks(svg, "/clipPath"))
         glass == TheOne(Places(svg, "glass"))
         frame == TheOne(Places(svg, "frame"))
         group == TheOne(Marks(svg, "g"))
         groupEnd == TheOne(Marks(svg, "/g"))
     IN /\ clipOpen < clip /\ clip < clipClose
        /\ clipClose < glass /\ glass < frame /\ frame < group
        /\ group < groupEnd
        /\ Shape(svg[glass]) = Shape(svg[clip])
        /\ svg[glass].fill = "glass_color"
        /\ svg[frame].el = "path"
        /\ svg[frame].fill_rule = "evenodd"
        /\ svg[frame].fill = "frame_color"
        /\ \A i \in BarPlaces(svg) :
             /\ group < i /\ i < groupEnd
             /\ svg[i].el = "rect"
             /\ svg[i].fill = "bar_color"
        /\ \A i \in DOMAIN svg : (group < i /\ i < groupEnd) => i \in BarPlaces(svg)

C11_FixedLayerOrder == (Done /\ Ok) => LayerOrder(result.svg)

C11_Witness ==
  /\ Done /\ Ok
  /\ spec.arch_height_mm > 0
  /\ Places(result.svg, "vertical") # {}
  /\ Places(result.svg, "chord") # {}
  /\ Places(result.svg, "horizontal") # {}

ContourExtents(c) ==
  IF c[2].op = "A"
  THEN LET top == RSub(c[1].y, c[2].ry)
       IN [x |-> c[1].x, y |-> top, w |-> RSub(c[2].x, c[1].x),
           h |-> RSub(c[3].y, top), rise |-> c[2].ry]
  ELSE [x |-> c[1].x, y |-> c[1].y, w |-> RSub(c[2].x, c[1].x),
        h |-> RSub(c[3].y, c[1].y), rise |-> Zero]

ElementExtents(e) ==
  IF e.el = "rect"
  THEN [x |-> e.x, y |-> e.y, w |-> e.width, h |-> e.height, rise |-> Zero]
  ELSE ContourExtents(e.d)

\* the second contour of the frame path
FrameHole(e) == SubSeq(e.d, 6, 10)

SpecAperture(s) ==
  [x |-> float(s.frame_width_mm), y |-> float(s.frame_width_mm),
   w |-> float(ApertureW(s)), h |-> float(ApertureH(s)),
   rise |-> float(InnerRise(s))]

C13_ApertureExtents ==
  (Done /\ Valid(spec) /\ Ok) =>
    LET svg == result.svg
        clip == svg[TheOne(Places(svg, "clip"))]
        glass == svg[TheOne(Places(svg, "glass"))]
        frame == svg[TheOne(Places(svg, "frame"))]
    IN /\ ApertureW(spec) > 0 /\ ApertureH(spec) > 0
       /\ ElementExtents(clip) = SpecAperture(spec)
       /\ ElementExtents(glass) = SpecAperture(spec)
       /\ ContourExtents(FrameHole(frame)) = SpecAperture(spec)

C13_Witness ==
  /\ Done /\ Valid(spec) /\ Ok
  /\ spec.frame_width_mm > 0
  /\ spec.arch_height_mm > spec.frame_width_mm
  /\ ElementExtents(result.svg[TheOne(Places(result.svg, "clip"))]).rise
       = float(spec.arch_height_mm - spec.frame_width_mm)

\* the rectangular aperture is reached too
C13_WitnessRect ==
  /\ Done /\ Valid(spec) /\ Ok
  /\ spec.frame_width_mm > 0
  /\ spec.arch_height_mm = 0
  /\ result.svg[TheOne(Places(result.svg, "clip"))].el = "rect"

(* C14: for a valid spec with arch_height = 0 the inner arch path built   *)
(* with rise 0 and the rectangle the code emits instead describe          *)
(* apertures of identical extents: corner (frame_width, frame_width),     *)
(* size inner_w x inner_h.                                                *)
C14_RectIsZeroRiseArch ==
  (Done /\ Valid(spec) /\ spec.arch_height_mm = 0 /\ Ok) =>
    LET clip == result.svg[TheOne(Places(result.svg, "clip"))]
        arch == path_arch_inner(W(spec), H(spec), FW(spec), AH(spec))
    IN /\ clip.el = "rect"
       /\ ContourExtents(arch) = ElementExtents(clip)
       /\ ContourExtents(arch).x = float(spec.frame_width_mm)
       /\ ContourExtents(arch).y = float(spec.frame_width_mm)
       /\ ContourExtents(arch).w = float(ApertureW(spec))
       /\ ContourExtents(arch).h = float(ApertureH(spec))

C14_Witness ==
  /\ Done /\ Valid(spec) /\ Ok
  /\ spec.arch_height_mm = 0
  /\ spec.frame_width_mm > 0
  /\ spec.width_mm # spec.height_mm
  /\ ElementExtents(result.svg[TheOne(Places(result.svg, "clip"))]).w
       = float(ApertureW(spec))

(* C15: once validation has passed, generation fails only in from_chord   *)
(* mode with arch_height > 0, where the chord bar is placed, and only     *)
(* with an insufficient-space error: every valid spec in even mode and    *)
(* every valid from_chord spec with arch_height = 0 yields a document,    *)
(* whatever the bar counts and widths.                                    *)
C15_OnlyChordLayoutFails ==
  (Done /\ Valid(spec)) =>
    /\ Failed =>
         /\ spec.horizontal_distribution_mode = "from_chord"
         /\ spec.arch_height_mm > 0
         /\ result.error \in SpaceErrors
    /\ (spec.horizontal_distribution_mode = "even" \/ spec.arch_height_mm = 0) => Ok

C15_Witness ==
  /\ Done /\ Valid(spec) /\ Failed
  /\ spec.horizontal_distribution_mode = "from_chord"
  /\ spec.arch_height_mm > 0
  /\ result.error = "NoSpaceBelowChord"

\* a valid even-mode spec whose bars are wider than the aperture is high
C15_WitnessEven ==
  /\ Done /\ Valid(spec) /\ Ok
  /\ spec.horizontal_distribution_mode = "even"
  /\ spec.arch_height_mm > 0
  /\ spec.num_horizontal_bars >= 1
  /\ spec.num_horizontal_bars * spec.sash_bar_width_mm > ApertureH(spec)

(* C16: for a valid spec every elliptical-arc command of the document     *)
(* (clip path, glass path, both contours of the frame path) has strictly  *)
(* positive radii on both axes; a boundary of rise 0 is drawn with        *)
(* straight edges, never as an arc of rise 0.                             *)
ArcsOf(svg) ==
  {c \in UNION {{svg[i].d[j] : j \in DOMAIN svg[i].d} : i \in DOMAIN svg} : c.op = "A"}

C16_ArcRadiiPositive ==
  (Done /\ Valid(spec) /\ Ok) =>
    \A c \in ArcsOf(result.svg) : RLt(Zero, c.rx) /\ RLt(Zero, c.ry)

(* C17: for a valid spec with arch_height > 0 the inner boundary is       *)
(* well formed: its springline y = frame_width + max(0, arch_height -     *)
(* frame_width) is at or above the aperture's bottom edge                 *)
(* y = height - frame_width, so the arc's end points are never below it.  *)
C17_SpringlineAboveBottom ==
  (Done /\ Valid(spec) /\ spec.arch_height_mm > 0 /\ Ok) =>
    LET inner == result.svg[TheOne(Places(result.svg, "clip"))].d
    IN /\ inner[1].y = float(ChordTop(spec))
       /\ inner[2].y = inner[1].y
       /\ inner[3].y = float(spec.height_mm - spec.frame_width_mm)
       /\ RLe(inner[2].y, inner[3].y)

====
